---- MODULE Spec2Model ----
(***************************************************************************)
(* BYTE Health App: the Flask scan backend (app.py) and the Streamlit      *)
(* dashboard (streamlit_app.py), which share the file scanned_foods.json.  *)
(*                                                                         *)
(* Python values: None is the empty tuple, a present value v is <<v>>; a   *)
(* dict is a function over its keys, the empty dict the empty function.    *)
(* The file is a sequence of tokens, so that truncation, a write at an     *)
(* offset and a failed parse are what they are on disk.                    *)
(***************************************************************************)
EXTENDS Integers, Sequences, FiniteSets, TLC

VARIABLES
    file,          \* scanned_foods.json: [exists, bytes]
    clock,         \* the last reading of datetime.now() in the backend
    req,           \* per handler thread: the frame of scan_barcode / save_scanned_food
    nscans,        \* requests received so far
    appendLog,     \* the entries whose rewrite completed, in completion order
    dpc,           \* dashboard: position in the script
    user_profile,  \* st.session_state.user_profile
    daily_intake,  \* st.session_state.daily_intake
    cleared,       \* clear_scanned_foods has opened the file at least once
    advice         \* what the last call of get_ai_nutrition_advice computed

vars ==
    <<file, clock, req, nscans, appendLog, dpc, user_profile, daily_intake, cleared, advice>>

(* Bounds of the model. *)
MaxScans == 2
MaxClock == 1

(* The handler threads of the Flask development server that run at once. *)
Reqs == {"t1", "t2"}

None == <<>>
Some(v) == <<v>>
EmptyDict == <<>>

(* Python truthiness of an optional number: None and 0 are falsy. *)
Truthy(v) == v # None /\ v[1] # 0

(* a or b *)
PyOr(a, b) == IF Truthy(a) THEN a ELSE b

(* d.get(k) *)
Get(d, k) == IF k \in DOMAIN d THEN d[k] ELSE None

(* d.get(k, default): the default only when the key is missing. *)
GetD(d, k, default) == IF k \in DOMAIN d THEN d[k] ELSE default

(***************************************************************************)
(* json.dump / json.load of the store file.                                *)
(***************************************************************************)
TokOpen == [t |-> "open"]          \* {"foods": [
TokClose == [t |-> "close"]        \* ]}
TokObj == [t |-> "obj"]            \* {}  (a JSON object without "foods")
TokEntry(e) == [t |-> "entry", e |-> e]

RECURSIVE DumpList(_)
DumpList(s) == IF s = <<>> THEN <<>> ELSE <<TokEntry(Head(s))>> \o DumpList(Tail(s))

(* json.dump(data, f): the text written. *)
JsonDumpStale(data) ==
    IF "foods" \in DOMAIN data
    THEN <<TokOpen>> \o DumpList(SubSeq(data.foods, 1, Len(data.foods) - 1)) \o <<TokClose>>
    ELSE <<TokObj>>
JsonDump(data) ==
    IF "foods" \in DOMAIN data
    THEN <<TokOpen>> \o DumpList(data.foods) \o <<TokClose>>
    ELSE <<TokObj>>

(* json.load(f): [ok, val]; ok = FALSE is JSONDecodeError. *)
JsonLoad(bytes) ==
    LET n == Len(bytes) IN
    IF bytes = <<TokObj>> THEN [ok |-> TRUE, val |-> EmptyDict]
    ELSE IF /\ n >= 2
            /\ bytes[1] = TokOpen
            /\ bytes[n] = TokClose
            /\ \A i \in 2..(n - 1) : bytes[i].t = "entry"
         THEN [ok |-> TRUE, val |-> [foods |-> [i \in 1..(n - 2) |-> bytes[i + 1].e]]]
         ELSE [ok |-> FALSE, val |-> EmptyDict]

(* open(path, 'w'): creates or truncates. *)
OpenTruncate(f) == [exists |-> TRUE, bytes |-> <<>>]

(* The flush of a handle opened with 'w': the text lands at offset 0 and    *)
(* whatever another handle wrote beyond its end stays.                      *)
WriteLost(f, buf) == f
WriteAt0(f, buf) ==
    [exists |-> TRUE, bytes |-> buf \o SubSeq(f.bytes, Len(buf) + 1, Len(f.bytes))]

Absent == [exists |-> FALSE, bytes |-> <<>>]
EmptyStore == [foods |-> <<>>]

(***************************************************************************)
(* get_nutrition_info: the OpenFoodFacts answer and its normalisation.     *)
(***************************************************************************)
NutrimentsA ==
    ("energy-kcal_serving" :> Some(9)) @@
    ("proteins_serving" :> Some(5)) @@ ("proteins" :> Some(9)) @@ ("proteins_100g" :> Some(12)) @@
    ("fat_100g" :> Some(3)) @@
    ("carbohydrates" :> Some(4)) @@
    ("fiber_serving" :> Some(0)) @@ ("fiber_100g" :> Some(2)) @@
    ("sugars" :> Some(1)) @@
    ("salt" :> Some(1))

NutrimentsB ==
    ("energy-kcal_serving" :> Some(0)) @@ ("energy-kcal_100g" :> Some(7)) @@
    ("proteins_serving" :> Some(0)) @@
    ("fat" :> None) @@ ("fat_100g" :> Some(0)) @@
    ("sugars_100g" :> Some(6))

ProductA ==
    ("product_name" :> Some("Bar")) @@ ("brands" :> Some("Acme")) @@
    ("serving_size" :> Some("30g")) @@ ("nutriments" :> NutrimentsA)

ProductB == ("quantity" :> Some("1l")) @@ ("nutriments" :> NutrimentsB)

Products == {ProductA, ProductB}

(* What requests.get and response.json() can give: a raised exception, a    *)
(* status code, and the decoded body.                                       *)
HttpRaised(msg) ==
    [raises |-> TRUE, parses |-> FALSE, msg |-> msg, status_code |-> 0, body |-> EmptyDict]
HttpAnswer(code, body) ==
    [raises |-> FALSE, parses |-> TRUE, msg |-> "", status_code |-> code, body |-> body]
(* An answer whose text is not JSON: response.json() raises. *)
HttpGarbled(code) ==
    [raises |-> FALSE, parses |-> FALSE, msg |-> "Expecting value", status_code |-> code,
     body |-> EmptyDict]
NoAnswer == [raises |-> FALSE, parses |-> FALSE, msg |-> "", status_code |-> 0, body |-> EmptyDict]

HttpResponses ==
    {HttpRaised("timed out"), HttpAnswer(500, EmptyDict), HttpGarbled(200),
     HttpAnswer(200, ("status" :> Some(0))), HttpAnswer(200, EmptyDict)}
    \cup {HttpAnswer(200, ("status" :> Some(1)) @@ ("product" :> p)) : p \in Products}

(* The chain  nutriments.get(a) or nutriments.get(b) or nutriments.get(c).  *)
OrChain(n, a, b, c) == PyOr(PyOr(Get(n, a), Get(n, b)), Get(n, c))

Nutrition(product) ==
    LET nutriments == GetD(product, "nutriments", EmptyDict) IN
    [product_name |-> GetD(product, "product_name", Some("Unknown Product")),
     brand |-> GetD(product, "brands", Some("Unknown Brand")),
     quantity |-> Get(product, "quantity"),
     serving_size |-> Get(product, "serving_size"),
     calories |-> OrChain(nutriments, "energy-kcal_serving", "energy-kcal", "energy-kcal_100g"),
     protein |-> OrChain(nutriments, "proteins_serving", "proteins", "proteins_100g"),
     fat |-> OrChain(nutriments, "fat_serving", "fat", "fat_100g"),
     carbs |-> OrChain(nutriments, "carbohydrates_serving", "carbohydrates", "carbohydrates_100g"),
     fiber |-> OrChain(nutriments, "fiber_serving", "fiber", "fiber_100g"),
     sugar |-> OrChain(nutriments, "sugars_serving", "sugars", "sugars_100g"),
     salt |-> OrChain(nutriments, "salt_serving", "salt", "salt_100g"),
     calories_per_100g |-> Get(nutriments, "energy-kcal_100g"),
     protein_per_100g |-> Get(nutriments, "proteins_100g"),
     fat_per_100g |-> Get(nutriments, "fat_100g"),
     carbs_per_100g |-> Get(nutriments, "carbohydrates_100g"),
     image_url |-> Get(product, "image_url"),
     nutrition_grade |-> Get(product, "nutrition_grades")]

(* {"error": text}; the text of the except branch carries str(e). *)
LookupError(msg, detail) == [error |-> <<msg, detail>>]

LookupByFlag(resp) ==
    IF resp.raises \/ ~resp.parses THEN LookupError("API request failed: ", resp.msg)
    ELSE IF Get(resp.body, "status") # Some(1)
    THEN LookupError("Product not found in database", "")
    ELSE Nutrition(GetD(resp.body, "product", EmptyDict))
get_nutrition_info(resp) ==
    IF resp.raises THEN LookupError("API request failed: ", resp.msg)
    ELSE IF resp.status_code # 200 THEN LookupError("Failed to fetch product data", "")
    ELSE IF ~resp.parses THEN LookupError("API request failed: ", resp.msg)
    ELSE IF Get(resp.body, "status") # Some(1)
    THEN LookupError("Product not found in database", "")
    ELSE Nutrition(GetD(resp.body, "product", EmptyDict))

(***************************************************************************)
(* scan_barcode, lines 80-106: from the request body to the first barcode. *)
(***************************************************************************)
(* A decoder result: the payload bytes and the symbology. *)
ResultEan == [data |-> <<53, 48>>, type |-> "EAN13"]
ResultQr == [data |-> <<55>>, type |-> "QRCODE"]
ResultBin == [data |-> <<255>>, type |-> "QRCODE"]

(* bytes.decode('utf-8') over the bytes used here: ASCII decodes to itself, *)
(* 0xFF starts no UTF-8 sequence.                                           *)
Utf8Ok(b) == \A i \in 1..Len(b) : b[i] < 128

(* The request body.  json: request.json is truthy; image: the "image" key  *)
(* is there; comma: the data URI splits at a comma; b64: base64 decodes;    *)
(* img: PIL opens and reads the bytes; channels: of np.array(image);        *)
(* barcodes: what pyzbar.decode returns for it.                             *)
Body(json, image, comma, b64, img, channels, barcodes) ==
    [json |-> json, image |-> image, comma |-> comma, b64 |-> b64, img |-> img,
     channels |-> channels, barcodes |-> barcodes]

Image(channels, barcodes) == Body(TRUE, TRUE, TRUE, TRUE, TRUE, channels, barcodes)

Bodies ==
    {Body(FALSE, FALSE, FALSE, FALSE, FALSE, 0, <<>>),
     Body(TRUE, FALSE, FALSE, FALSE, FALSE, 0, <<>>),
     Body(TRUE, TRUE, FALSE, FALSE, FALSE, 0, <<>>),
     Body(TRUE, TRUE, TRUE, FALSE, FALSE, 0, <<>>),
     Body(TRUE, TRUE, TRUE, TRUE, FALSE, 0, <<>>),
     Image(1, <<ResultEan>>),
     Image(3, <<>>),
     Image(3, <<ResultQr, ResultEan>>),
     Image(4, <<ResultBin, ResultEan>>)}

ErrorResponse(msg) == [status |-> "error", message |-> msg]
NoBarcodeResponse == [status |-> "no_barcode", message |-> "No barcode detected"]
SuccessResponse(barcode_data, barcode_type, nutrition_info) ==
    [status |-> "success", barcode |-> barcode_data, barcode_type |-> barcode_type,
     nutrition |-> nutrition_info]
OptionsResponse == [status |-> "ok"]
NoResponse == [status |-> "pending"]

(* The outcome of lines 80-106: a response, or the first barcode decoded.   *)
Decoded(barcode_data, barcode_type) ==
    [found |-> TRUE, response |-> NoResponse, barcode |-> barcode_data,
     barcode_type |-> barcode_type]
Ends(response) == [found |-> FALSE, response |-> response, barcode |-> <<>>, barcode_type |-> ""]

PickFirst(barcodes) == barcodes[1]

ScanImage(body) ==
    IF ~body.json THEN Ends(ErrorResponse("No JSON data received"))
    ELSE IF ~body.image THEN Ends(ErrorResponse("No image data in request"))
    ELSE IF ~body.comma THEN Ends(ErrorResponse("not enough values to unpack"))
    ELSE IF ~body.b64 THEN Ends(ErrorResponse("Incorrect padding"))
    ELSE IF ~body.img THEN Ends(ErrorResponse("cannot identify image file"))
    ELSE IF body.channels \notin {3, 4} THEN Ends(ErrorResponse("Invalid number of channels"))
    ELSE IF body.barcodes = <<>> THEN Ends(NoBarcodeResponse)
    ELSE LET barcode == PickFirst(body.barcodes) IN
         IF ~Utf8Ok(barcode.data) THEN Ends(ErrorResponse("codec can't decode byte"))
         ELSE Decoded(barcode.data, barcode.type)

(***************************************************************************)
(* save_scanned_food and the rest of scan_barcode.                         *)
(***************************************************************************)
IdleFrame ==
    [pc |-> "idle", method |-> "", body |-> EmptyDict, barcode |-> <<>>, barcode_type |-> "",
     nutrition_info |-> EmptyDict, data |-> EmptyDict, food_entry |-> EmptyDict,
     response |-> NoResponse, log |-> "", gets |-> 0, resp |-> NoAnswer]

(* Line 112: nutrition_info and 'error' not in nutrition_info. *)
SaveAlways(nutrition_info) == nutrition_info # EmptyDict
ShouldSave(nutrition_info) ==
    nutrition_info # EmptyDict /\ "error" \notin DOMAIN nutrition_info

(* Lines 137-147. *)
FoodEntryBackdated(nutrition_info, now) ==
    [name |-> GetD(nutrition_info, "product_name", Some("Unknown Product")),
     brand |-> GetD(nutrition_info, "brand", Some("")),
     calories |-> GetD(nutrition_info, "calories", Some(0)),
     protein |-> GetD(nutrition_info, "protein", Some(0)),
     carbs |-> GetD(nutrition_info, "carbs", Some(0)),
     fat |-> GetD(nutrition_info, "fat", Some(0)),
     fiber |-> GetD(nutrition_info, "fiber", Some(0)),
     sugar |-> GetD(nutrition_info, "sugar", Some(0)),
     timestamp |-> MaxClock - now]
FoodEntry(nutrition_info, now) ==
    [name |-> GetD(nutrition_info, "product_name", Some("Unknown Product")),
     brand |-> GetD(nutrition_info, "brand", Some("")),
     calories |-> GetD(nutrition_info, "calories", Some(0)),
     protein |-> GetD(nutrition_info, "protein", Some(0)),
     carbs |-> GetD(nutrition_info, "carbs", Some(0)),
     fat |-> GetD(nutrition_info, "fat", Some(0)),
     fiber |-> GetD(nutrition_info, "fiber", Some(0)),
     sugar |-> GetD(nutrition_info, "sugar", Some(0)),
     timestamp |-> now]

(* Line 149: data['foods'].append(food_entry). *)
InsertFood(foods, entry) == <<entry>> \o foods
AppendFood(foods, entry) == Append(foods, entry)

(* Lines 115-120: the handler's last statement. *)
RespondError(frame) ==
    [frame EXCEPT !.pc = "done", !.data = EmptyDict, !.food_entry = EmptyDict,
                  !.response = ErrorResponse("Error saving food data")]
Respond(frame) ==
    [frame EXCEPT !.pc = "done", !.data = EmptyDict, !.food_entry = EmptyDict,
                  !.response = SuccessResponse(frame.barcode, frame.barcode_type,
                                               frame.nutrition_info)]

(* Lines 157-158: the exception is printed and save_scanned_food returns. *)
SavePropagates(frame) == RespondError([frame EXCEPT !.log = "Error saving food data"])
SaveRaised(frame) == Respond([frame EXCEPT !.log = "Error saving food data"])

(* Lines 130-134: [ok, data]. *)
ExistingFresh(f, readable) == [ok |-> TRUE, data |-> EmptyStore]
ExistingData(f, readable) ==
    IF ~f.exists THEN [ok |-> TRUE, data |-> EmptyStore]
    ELSE IF ~readable THEN [ok |-> FALSE, data |-> EmptyDict]
    ELSE LET loaded == JsonLoad(f.bytes) IN [ok |-> loaded.ok, data |-> loaded.val]

(* A handler thread is free before its first request and once it has      *)
(* answered; its frame keeps the last answer until the next request.        *)
Free(r) == req[r].pc \in {"idle", "done"}

(* Lines 76-77. *)
Options(r) ==
    /\ Free(r)
    /\ nscans < MaxScans
    /\ req' = [req EXCEPT ![r] = [IdleFrame EXCEPT !.pc = "done", !.method = "OPTIONS",
                                                   !.response = OptionsResponse]]
    /\ nscans' = nscans + 1
    /\ UNCHANGED <<file, clock, appendLog, dpc, user_profile, daily_intake, cleared, advice>>

(* Lines 79-106. *)
Post(r) ==
    /\ Free(r)
    /\ nscans < MaxScans
    /\ \E body \in Bodies :
         LET scan == ScanImage(body)
             frame == [IdleFrame EXCEPT !.method = "POST", !.body = body] IN
         req' = [req EXCEPT ![r] =
                   IF scan.found
                   THEN [frame EXCEPT !.pc = "lookup", !.barcode = scan.barcode,
                                      !.barcode_type = scan.barcode_type]
                   ELSE [frame EXCEPT !.pc = "done", !.response = scan.response]]
    /\ nscans' = nscans + 1
    /\ UNCHANGED <<file, clock, appendLog, dpc, user_profile, daily_intake, cleared, advice>>

(* Lines 109-113, and 115-120 when nothing is saved.  The frame keeps the   *)
(* answer of the one requests.get of line 164 and counts the calls of it.   *)
Lookup(r) ==
    /\ req[r].pc = "lookup"
    /\ \E resp \in HttpResponses :
         LET frame == [req[r] EXCEPT !.nutrition_info = get_nutrition_info(resp),
                                     !.gets = @ + 1, !.resp = resp] IN
         req' = [req EXCEPT ![r] =
                   IF ShouldSave(frame.nutrition_info)
                   THEN [frame EXCEPT !.pc = "save"]
                   ELSE Respond(frame)]
    /\ UNCHANGED <<file, clock, nscans, appendLog, dpc, user_profile, daily_intake, cleared, advice>>

(* Lines 130-134. *)
SaveLoad(r) ==
    /\ req[r].pc = "save"
    /\ \E readable \in BOOLEAN :
         LET existing == ExistingData(file, readable) IN
         req' = [req EXCEPT ![r] =
                   IF existing.ok
                   THEN [req[r] EXCEPT !.pc = "entry", !.data = existing.data]
                   ELSE SaveRaised(req[r])]
    /\ UNCHANGED <<file, clock, nscans, appendLog, dpc, user_profile, daily_intake, cleared, advice>>

(* Lines 137-149.  datetime.now() reads a clock that has not gone back     *)
(* since it was last read.                                                 *)
SaveEntry(r) ==
    /\ req[r].pc = "entry"
    /\ \E now \in clock..MaxClock :
         LET frame == [req[r] EXCEPT !.food_entry = FoodEntry(req[r].nutrition_info, now)] IN
         /\ clock' = now
         /\ req' = [req EXCEPT ![r] =
                      IF "foods" \in DOMAIN frame.data
                      THEN [frame EXCEPT !.pc = "open",
                                         !.data = [foods |-> AppendFood(frame.data.foods,
                                                                        frame.food_entry)]]
                      ELSE SaveRaised(frame)]
    /\ UNCHANGED <<file, nscans, appendLog, dpc, user_profile, daily_intake, cleared, advice>>

(* Line 152. *)
SaveOpen(r) ==
    /\ req[r].pc = "open"
    /\ \E writable \in BOOLEAN :
         IF writable
         THEN /\ file' = OpenTruncate(file)
              /\ req' = [req EXCEPT ![r].pc = "write"]
         ELSE /\ file' = file
              /\ req' = [req EXCEPT ![r] = SaveRaised(req[r])]
    /\ UNCHANGED <<clock, nscans, appendLog, dpc, user_profile, daily_intake, cleared, advice>>

(* Lines 153-155, then 115-120. *)
SaveWrite(r) ==
    /\ req[r].pc = "write"
    /\ file' = WriteAt0(file, JsonDump(req[r].data))
    /\ appendLog' = Append(appendLog, req[r].food_entry)
    /\ req' = [req EXCEPT ![r] = Respond([req[r] EXCEPT !.log = "Saved food"])]
    /\ UNCHANGED <<clock, nscans, dpc, user_profile, daily_intake, cleared, advice>>

(***************************************************************************)
(* The dashboard script.                                                   *)
(***************************************************************************)
Nutrients == <<"calories", "protein", "carbs", "fat", "fiber", "sugar">>

ZeroTotals ==
    [calories |-> 0, protein |-> 0, carbs |-> 0, fat |-> 0, fiber |-> 0, sugar |-> 0]

(* load_scanned_foods: [raised, foods].  Every exception of the body is     *)
(* caught at line 221, so the caller never sees one.                        *)
Loaded(foods) == [raised |-> FALSE, foods |-> foods]
LoadUncaught(f, readable) ==
    IF ~f.exists THEN Loaded(<<>>)
    ELSE IF ~readable \/ ~JsonLoad(f.bytes).ok THEN [raised |-> TRUE, foods |-> <<>>]
    ELSE Loaded(GetD(JsonLoad(f.bytes).val, "foods", <<>>))
load_scanned_foods(f, readable) ==
    IF ~f.exists THEN Loaded(<<>>)
    ELSE IF ~readable THEN Loaded(<<>>)
    ELSE LET loaded == JsonLoad(f.bytes) IN
         IF ~loaded.ok THEN Loaded(<<>>) ELSE Loaded(GetD(loaded.val, "foods", <<>>))

(* Lines 263-265 for one food: totals[nutrient] += food.get(nutrient, 0);   *)
(* adding None raises TypeError.                                            *)
RECURSIVE AddNutrients(_, _, _)
AddNutrients(acc, food, i) ==
    IF i > Len(Nutrients) \/ ~acc.ok THEN acc
    ELSE LET nutrient == Nutrients[i] IN
         IF nutrient \notin DOMAIN food THEN AddNutrients(acc, food, i + 1)
         ELSE IF food[nutrient] = None THEN [ok |-> FALSE, totals |-> acc.totals]
         ELSE AddNutrients([ok |-> TRUE,
                            totals |-> [acc.totals EXCEPT ![nutrient] = @ + food[nutrient][1]]],
                           food, i + 1)

(* calculate_daily_totals: [ok, totals]; ok = FALSE is the TypeError. *)
RECURSIVE TotalsFrom(_, _)
TotalsFrom(acc, foods) ==
    IF foods = <<>> \/ ~acc.ok THEN acc
    ELSE IF "calories" \notin DOMAIN Head(foods) THEN TotalsFrom(acc, Tail(foods))
    ELSE TotalsFrom(AddNutrients(acc, Head(foods), 1), Tail(foods))

calculate_daily_totals(foods) == TotalsFrom([ok |-> TRUE, totals |-> ZeroTotals], foods)

Intake(totals, foods) ==
    [calories |-> totals.calories, protein |-> totals.protein, carbs |-> totals.carbs,
     fat |-> totals.fat, fiber |-> totals.fiber, sugar |-> totals.sugar, foods |-> foods]

(* Lines 270-293: [ok, intake]; a raised TypeError ends the script run and  *)
(* leaves the session as it was.                                            *)
TopLevel(f, readable, intake) ==
    LET loaded == load_scanned_foods(f, readable)
        scanned_foods == loaded.foods
        daily_totals == calculate_daily_totals(scanned_foods) IN
    IF ~loaded.raised /\ daily_totals.ok
    THEN [ok |-> TRUE, intake |-> Intake(daily_totals.totals, scanned_foods)]
    ELSE [ok |-> FALSE, intake |-> intake]

(* Lines 233-242. *)
KeepIntake(intake) == intake
ClearedIntake(intake) ==
    IF intake # EmptyDict THEN Intake(ZeroTotals, <<>>) ELSE intake

(***************************************************************************)
(* The profile and goal calculator.  Weights, heights and calories are     *)
(* numbers of thousandths (kg, cm, kcal), so that 6.25 * height and         *)
(* bmr * 1.375 are what they are; a quotient is rounded down to the next    *)
(* thousandth.                                                              *)
(***************************************************************************)
Goals == {"Lose weight", "Maintain weight", "Gain weight (muscle)"}

Genders == {"Male", "Female", "Other"}

(* activity_multipliers, in thousandths. *)
activity_multipliers ==
    ("Sedentary (little or no exercise)" :> 1200) @@
    ("Lightly active (light exercise/sports 1-3 days/week)" :> 1375) @@
    ("Moderately active (moderate exercise/sports 3-5 days/week)" :> 1550) @@
    ("Very active (hard exercise/sports 6-7 days a week)" :> 1725) @@
    ("Extra active (very hard exercise/sports & physical job)" :> 1900)

ActivityLevels == DOMAIN activity_multipliers

(* str.lower() over the gender strings in use. *)
Lower(gender) ==
    CASE gender \in {"Male", "male", "MALE"} -> "male"
      [] gender \in {"Female", "female"} -> "female"
      [] OTHER -> "other"

(* x * m / 1000 for thousandths x and m, without leaving 32 bits. *)
TimesMilli(x, m) == (x \div 1000) * m + ((x % 1000) * m) \div 1000

(* pounds / 2.20462 = pounds * 50000 / 110231. *)
convert_weight_to_kg(pounds) ==
    LET q == pounds \div 110231
        x == (pounds % 110231) * 250 IN
    q * 50000 + (x \div 110231) * 200 + ((x % 110231) * 200) \div 110231

(* ((feet * 12) + inches) * 2.54, feet and inches whole numbers. *)
convert_height_to_cm(feet, inches) == ((feet * 12) + inches) * 2540

(* Lines 317-320; age is a whole number. *)
BmrCaseSensitive(weight, height, age, gender) ==
    IF gender = "male"
    THEN (10 * weight) + ((625 * height) \div 100) - (5000 * age) + 5000
    ELSE (10 * weight) + ((625 * height) \div 100) - (5000 * age) - 161000
calculate_bmr(weight, height, age, gender) ==
    IF Lower(gender) = "male"
    THEN (10 * weight) + ((625 * height) \div 100) - (5000 * age) + 5000
    ELSE (10 * weight) + ((625 * height) \div 100) - (5000 * age) - 161000

calculate_tdee(bmr, activity_level) ==
    TimesMilli(bmr, GetD(activity_multipliers, activity_level, 1200))

(* int(x): towards zero, from thousandths to a whole number. *)
int(x) == IF x >= 0 THEN x \div 1000 ELSE -((-x) \div 1000)

Max(a, b) == IF a >= b THEN a ELSE b

(* calculate_macros: whole numbers of grams (// is the floor). *)
calculate_macros(calories, goal) ==
    LET protein_ratio == CASE goal = "Lose weight" -> 30
                           [] goal = "Gain weight (muscle)" -> 25
                           [] OTHER -> 20
        fat_ratio == CASE goal = "Lose weight" -> 25
                       [] goal = "Gain weight (muscle)" -> 25
                       [] OTHER -> 30
        carb_ratio == CASE goal = "Lose weight" -> 45
                        [] goal = "Gain weight (muscle)" -> 50
                        [] OTHER -> 50 IN
    [protein |-> (calories * protein_ratio) \div 400000,
     fat |-> (calories * fat_ratio) \div 900000,
     carbs |-> (calories * carb_ratio) \div 400000,
     fiber |-> Max(25, calories \div 100000)]

(* Lines 477-482: the calorie target at profile creation. *)
FormCalories(tdee, goal) ==
    CASE goal = "Lose weight" -> tdee - 500000
      [] goal = "Gain weight (muscle)" -> tdee + 300000
      [] OTHER -> tdee

(* Lines 95-100: the calorie target in get_ai_nutrition_advice. *)
AdviceCalories(tdee, goal) ==
    CASE goal = "Lose weight" -> tdee - 500000
      [] goal = "Gain weight" -> tdee + 300000
      [] OTHER -> tdee

(* Lines 473-505: the profile stored for inputs already in kg and cm. *)
StaleGoals(name, age, gender, weight, height, activity_level, goal) ==
    [name |-> name, age |-> age, gender |-> gender, weight |-> weight, height |-> height,
     activity_level |-> activity_level, goal |-> goal,
     bmr |-> 0, tdee |-> 0,
     daily_goals |-> [calories |-> 2000, protein |-> 100, carbs |-> 250, fat |-> 66,
                      fiber |-> 25]]
NewProfile(name, age, gender, weight, height, activity_level, goal) ==
    LET bmr == calculate_bmr(weight, height, age, gender)
        tdee == calculate_tdee(bmr, activity_level)
        daily_calories == FormCalories(tdee, goal)
        macros == calculate_macros(daily_calories, goal) IN
    [name |-> name, age |-> age, gender |-> gender, weight |-> weight, height |-> height,
     activity_level |-> activity_level, goal |-> goal,
     bmr |-> bmr, tdee |-> tdee,
     daily_goals |-> [calories |-> int(daily_calories), protein |-> macros.protein,
                      carbs |-> macros.carbs, fat |-> macros.fat, fiber |-> macros.fiber]]

(* What the form submits: the name typed, the goal chosen, and the values   *)
(* the other widgets show when the form opens (lines 421-445).              *)
FormInputs ==
    {[name |-> name, age |-> 25, gender |-> "Male", weight_lbs |-> 154000,
      height_feet |-> 5, height_inches |-> 7,
      activity_level |-> "Sedentary (little or no exercise)", goal |-> goal] :
        name \in {"", "Ann"}, goal \in Goals}

(* What model.generate_content(prompt) does when it is called: it raises,   *)
(* or it answers with a text that may be empty.                             *)
Generations ==
    {[raises |-> TRUE, text |-> ""], [raises |-> FALSE, text |-> ""],
     [raises |-> FALSE, text |-> "Eat more protein"]}

(* get_ai_nutrition_advice: the text returned, whether the model was        *)
(* called, and the locals computed on the way.                              *)
AdviceResult(user_profile_arg, generation, called, text, bmr, tdee, daily_calories) ==
    [profile |-> user_profile_arg, generation |-> generation, called |-> called,
     text |-> text, bmr |-> bmr, tdee |-> tdee, daily_calories |-> daily_calories]

(* Lines 105-145: daily_goals['calories'] raises KeyError when the key is   *)
(* missing, caught at line 147.                                             *)
Generate(daily_goals, generation) ==
    IF {"protein", "carbs", "fat", "calories"} \subseteq DOMAIN daily_goals
    THEN IF generation.raises THEN [called |-> TRUE, text |-> "Error generating AI advice"]
         ELSE IF generation.text # "" THEN [called |-> TRUE, text |-> generation.text]
         ELSE [called |-> TRUE, text |-> "Unable to generate recommendations at this time."]
    ELSE [called |-> FALSE, text |-> "Error generating AI advice"]

get_ai_nutrition_advice(foods, user_profile_arg, AI_ENABLED, generation) ==
    IF ~AI_ENABLED
    THEN AdviceResult(user_profile_arg, generation, FALSE, "AI recommendations unavailable",
                      None, None, None)
    ELSE IF ~calculate_daily_totals(foods).ok
    THEN AdviceResult(user_profile_arg, generation, FALSE, "Error generating AI advice",
                      None, None, None)
    ELSE LET bmr == calculate_bmr(user_profile_arg.weight, user_profile_arg.height,
                                  user_profile_arg.age, user_profile_arg.gender)
             tdee == calculate_tdee(bmr, user_profile_arg.activity_level)
             daily_calories == AdviceCalories(tdee, user_profile_arg.goal)
             daily_goals == calculate_macros(daily_calories, user_profile_arg.goal)
             generated == Generate(daily_goals, generation) IN
         AdviceResult(user_profile_arg, generation, generated.called, generated.text,
                      Some(bmr), Some(tdee), Some(daily_calories))

(* A script run that ends by st.rerun(), or the first run of the session. *)
Rerun ==
    /\ dpc \in {"start", "rerun", "cleared", "clear_failed"}
    /\ \E readable \in BOOLEAN :
         daily_intake' = TopLevel(file, readable, daily_intake).intake
    /\ dpc' = "ready"
    /\ UNCHANGED <<file, clock, req, nscans, appendLog, user_profile, cleared, advice>>

(* Any interaction that runs the script and no handler. *)
Refresh ==
    /\ dpc = "ready"
    /\ \E readable \in BOOLEAN :
         daily_intake' = TopLevel(file, readable, daily_intake).intake
    /\ UNCHANGED <<file, clock, req, nscans, appendLog, dpc, user_profile, cleared, advice>>

(* What the widgets accept (lines 421-451): the ends of each range and the  *)
(* values shown when the form opens.                                        *)
FormRange ==
    {[name |-> "Ann", age |-> age, gender |-> gender, weight_lbs |-> weight_lbs,
      height_feet |-> height[1], height_inches |-> height[2],
      activity_level |-> activity_level, goal |-> goal] :
        age \in {13, 25, 120}, gender \in Genders, weight_lbs \in {66000, 154000, 660000},
        height \in {<<3, 0>>, <<5, 7>>, <<8, 11>>},
        activity_level \in {"Sedentary (little or no exercise)",
                            "Extra active (very hard exercise/sports & physical job)"},
        goal \in Goals}

(* Lines 413-509 up to the call of clear_scanned_foods, the submitted       *)
(* values drawn from Inputs.                                                *)
SubmitProfileFrom(Inputs) ==
    /\ dpc = "ready"
    /\ user_profile = None
    /\ \E readable \in BOOLEAN, form \in Inputs :
         LET top == TopLevel(file, readable, daily_intake)
             weight == convert_weight_to_kg(form.weight_lbs)
             height == convert_height_to_cm(form.height_feet, form.height_inches) IN
         /\ daily_intake' = top.intake
         /\ IF top.ok /\ form.name # "" /\ form.age # 0 /\ weight # 0 /\ height # 0
            THEN /\ user_profile' = Some(NewProfile(form.name, form.age, form.gender, weight, height,
                                                    form.activity_level, form.goal))
                 /\ dpc' = "clear_open"
            ELSE UNCHANGED <<user_profile, dpc>>
    /\ UNCHANGED <<file, clock, req, nscans, appendLog, cleared, advice>>

SubmitProfile == SubmitProfileFrom(FormInputs)

(* Line 229, the open. *)
ClearOpen ==
    /\ dpc = "clear_open"
    /\ \E writable \in BOOLEAN :
         IF writable
         THEN file' = OpenTruncate(file) /\ dpc' = "clear_write" /\ cleared' = TRUE
         ELSE file' = file /\ dpc' = "clear_failed" /\ cleared' = cleared
    /\ UNCHANGED <<clock, req, nscans, appendLog, user_profile, daily_intake, advice>>

(* Lines 230-242. *)
ClearWrite ==
    /\ dpc = "clear_write"
    /\ file' = WriteAt0(file, JsonDump(EmptyStore))
    /\ daily_intake' = ClearedIntake(daily_intake)
    /\ dpc' = "cleared"
    /\ UNCHANGED <<clock, req, nscans, appendLog, user_profile, cleared, advice>>

(* Lines 886-888. *)
UpdateProfile ==
    /\ dpc = "ready"
    /\ user_profile # None
    /\ \E readable \in BOOLEAN :
         LET top == TopLevel(file, readable, daily_intake) IN
         /\ daily_intake' = top.intake
         /\ IF top.ok
            THEN user_profile' = None /\ dpc' = "rerun"
            ELSE UNCHANGED <<user_profile, dpc>>
    /\ UNCHANGED <<file, clock, req, nscans, appendLog, cleared, advice>>

(* Line 671, on the AI Coach page of a session that has a profile, when    *)
(* AI_ENABLED: the script runs from the top and calls the function.         *)
Advice ==
    /\ dpc = "ready"
    /\ user_profile # None
    /\ \E readable \in BOOLEAN, generation \in Generations :
         LET top == TopLevel(file, readable, daily_intake) IN
         /\ daily_intake' = top.intake
         /\ advice' = IF top.ok
                      THEN Some(get_ai_nutrition_advice(top.intake.foods, user_profile[1], TRUE,
                                                        generation))
                      ELSE advice
    /\ UNCHANGED <<file, clock, req, nscans, appendLog, dpc, user_profile, cleared>>

(***************************************************************************)
(* The system.                                                             *)
(***************************************************************************)
InitialFiles ==
    {Absent,
     [exists |-> TRUE, bytes |-> JsonDump(EmptyStore)],
     [exists |-> TRUE, bytes |-> <<TokOpen>>],
     [exists |-> TRUE, bytes |-> <<TokObj>>]}

Init ==
    /\ file \in InitialFiles
    /\ clock = 0
    /\ req = [r \in Reqs |-> IdleFrame]
    /\ nscans = 0
    /\ appendLog = <<>>
    /\ dpc = "start"
    /\ user_profile = None
    /\ daily_intake = EmptyDict
    /\ cleared = FALSE
    /\ advice = None

Next ==
    \/ \E r \in Reqs : Options(r)
    \/ \E r \in Reqs : Post(r)
    \/ \E r \in Reqs : Lookup(r)
    \/ \E r \in Reqs : SaveLoad(r)
    \/ \E r \in Reqs : SaveEntry(r)
    \/ \E r \in Reqs : SaveOpen(r)
    \/ \E r \in Reqs : SaveWrite(r)
    \/ Rerun
    \/ Refresh
    \/ SubmitProfile
    \/ ClearOpen
    \/ ClearWrite
    \/ UpdateProfile

Spec == Init /\ [][Next]_vars

(* One handler at a time, and no profile submission: the single-writer      *)
(* case, from a store that is absent or empty.                              *)
InitSingle == Init /\ file \in {Absent, [exists |-> TRUE, bytes |-> JsonDump(EmptyStore)]}

Alone(r) == \A q \in Reqs \ {r} : Free(q)

NextSingle ==
    \/ \E r \in Reqs : Alone(r) /\ Options(r)
    \/ \E r \in Reqs : Alone(r) /\ Post(r)
    \/ \E r \in Reqs : Lookup(r)
    \/ \E r \in Reqs : SaveLoad(r)
    \/ \E r \in Reqs : SaveEntry(r)
    \/ \E r \in Reqs : SaveOpen(r)
    \/ \E r \in Reqs : SaveWrite(r)
    \/ Rerun
    \/ Refresh

SpecSingle == InitSingle /\ [][NextSingle]_vars

(* One handler at a time beside the dashboard, from a store that already    *)
(* holds entries: written by earlier runs of the backend, with and without  *)
(* null nutrients.                                                          *)
PriorEntryA == FoodEntry(Nutrition(ProductA), 0)
PriorEntryB == FoodEntry(Nutrition(ProductB), 0)

PriorStores == {<<>>, <<PriorEntryA>>, <<PriorEntryB, PriorEntryA>>}

InitWriter ==
    /\ file \in {Absent} \cup {[exists |-> TRUE, bytes |-> JsonDump([foods |-> foods])] :
                                    foods \in PriorStores}
    /\ clock = 0
    /\ req = [r \in Reqs |-> IdleFrame]
    /\ nscans = 0
    /\ appendLog = <<>>
    /\ dpc = "start"
    /\ user_profile = None
    /\ daily_intake = EmptyDict
    /\ cleared = FALSE
    /\ advice = None

NextWriter ==
    \/ \E r \in Reqs : Alone(r) /\ Options(r)
    \/ \E r \in Reqs : Alone(r) /\ Post(r)
    \/ \E r \in Reqs : Lookup(r)
    \/ \E r \in Reqs : SaveLoad(r)
    \/ \E r \in Reqs : SaveEntry(r)
    \/ \E r \in Reqs : SaveOpen(r)
    \/ \E r \in Reqs : SaveWrite(r)
    \/ Rerun
    \/ Refresh
    \/ SubmitProfile
    \/ ClearOpen
    \/ ClearWrite
    \/ UpdateProfile

SpecWriter == InitWriter /\ [][NextWriter]_vars

(* The dashboard alone, the backend not running. *)
InitDash ==
    /\ file \in InitialFiles \cup {[exists |-> TRUE,
                                     bytes |-> JsonDump([foods |-> <<PriorEntryA>>])]}
    /\ clock = 0
    /\ req = [r \in Reqs |-> IdleFrame]
    /\ nscans = 0
    /\ appendLog = <<>>
    /\ dpc = "start"
    /\ user_profile = None
    /\ daily_intake = EmptyDict
    /\ cleared = FALSE
    /\ advice = None

NextDash ==
    \/ Rerun
    \/ Refresh
    \/ SubmitProfile
    \/ ClearOpen
    \/ ClearWrite
    \/ UpdateProfile
    \/ Advice

SpecDash == InitDash /\ [][NextDash]_vars

(* The dashboard alone, the setup form submitted with values from the whole *)
(* range of its widgets.                                                    *)
NextForm ==
    \/ Rerun
    \/ Refresh
    \/ SubmitProfileFrom(FormRange)
    \/ ClearOpen
    \/ ClearWrite
    \/ UpdateProfile

SpecForm == InitDash /\ [][NextForm]_vars

(* The calculator on its own: sessions whose profile was computed from any  *)
(* of these ages, weights (kg), heights (cm), genders, activity levels and  *)
(* goals, on which get_ai_nutrition_advice computes again.                  *)
Ages == {25, 60}
Weights == {70000, 55500}
Heights == {175000, 160020}
GenderStrings == {"Male", "male", "MALE", "Female", "Other"}

InitGoals ==
    /\ file = Absent
    /\ clock = 0
    /\ req = [r \in Reqs |-> IdleFrame]
    /\ nscans = 0
    /\ appendLog = <<>>
    /\ dpc = "ready"
    /\ user_profile \in {Some(NewProfile("Ann", age, gender, weight, height, activity_level, goal)) :
                            age \in Ages, gender \in GenderStrings, weight \in Weights,
                            height \in Heights, activity_level \in ActivityLevels,
                            goal \in Goals}
    /\ daily_intake = EmptyDict
    /\ cleared = FALSE
    /\ advice = None

NextGoals ==
    \/ Refresh
    \/ Advice

SpecGoals == InitGoals /\ [][NextGoals]_vars

(***************************************************************************)
(* Properties.                                                             *)
(***************************************************************************)
Last(s) == s[Len(s)]
Range(s) == {s[i] : i \in 1..Len(s)}

(* What a read of the store returns now. *)
StoredFoods == load_scanned_foods(file, TRUE).foods

(* The scan of r ended successfully end to end. *)
EndToEnd(r) ==
    /\ req[r].method = "POST"
    /\ req[r].response.status = "success"
    /\ "error" \notin DOMAIN req[r].response.nutrition

(* save_scanned_food of r completed its rewrite / raised and swallowed. *)
Saved(r) == req[r].log = "Saved food"
SaveFailed(r) == req[r].log = "Error saving food data"

InSave(r) == req[r].pc \in {"save", "entry", "open", "write"}

(* C1 as stated: a finished request has appended exactly one entry to the   *)
(* store if its scan ended successfully end to end, and none otherwise.     *)
C1_OneAppendPerSuccess ==
    \A r \in Reqs : req[r].pc = "done" => (Saved(r) <=> EndToEnd(r))

(* C1 amended: save_scanned_food is entered exactly when the scan ended     *)
(* successfully end to end; the store receives one appended entry from it   *)
(* unless the call raised (and swallowed) an exception, and then none.      *)
C1_OneAppendUnlessSaveFails ==
    \A r \in Reqs :
      req[r].pc = "done" =>
        /\ (Saved(r) \/ SaveFailed(r)) <=> EndToEnd(r)
        /\ Saved(r) <=> (EndToEnd(r) /\ ~SaveFailed(r))
        /\ Len(appendLog) <= nscans

C1_Witness ==
    \E r \in Reqs : req[r].pc = "done" /\ EndToEnd(r) /\ Saved(r) /\ StoredFoods # <<>>

(* C2 as stated: while an append is rewriting the file, a read returns the  *)
(* complete contents from before the rewrite or from after it.              *)
C2_NoPartialRead ==
    \A r \in Reqs :
      req[r].pc = "write" =>
        LET after == req[r].data.foods
            before == SubSeq(after, 1, Len(after) - 1) IN
        load_scanned_foods(file, TRUE).foods \in {before, after}

(* C3: with no rewrite in progress and no clear so far, a parseable store   *)
(* ends with the entry of the append that completed last and holds no more  *)
(* entries than appends completed; it may hold fewer (the witness).         *)
Quiescent == (\A r \in Reqs : req[r].pc # "write") /\ dpc # "clear_write"

C3_LaterWriterSurvives ==
    (Quiescent /\ ~cleared /\ appendLog # <<>> /\ JsonLoad(file.bytes).ok) =>
      /\ StoredFoods # <<>>
      /\ Last(StoredFoods) = Last(appendLog)
      /\ Len(StoredFoods) <= Len(appendLog)

C3_LostUpdate ==
    /\ \A r \in Reqs : req[r].pc = "done" /\ Saved(r)
    /\ ~cleared
    /\ Len(appendLog) = 2
    /\ StoredFoods = <<appendLog[2]>>

(* C4: single writer, no clear, store absent or empty at the start: when    *)
(* no rewrite is in progress a read returns the entries of the completed    *)
(* appends, in append order.                                                *)
C4_LoadAllIsAppendLog ==
    (\A r \in Reqs : req[r].pc # "write") =>
      StoredFoods = appendLog

C4_Witness ==
    /\ Len(appendLog) = MaxScans
    /\ StoredFoods = appendLog
    /\ \A r \in Reqs : Free(r)

(* C5 as stated: when save_scanned_food returns, a read observes an entry   *)
(* made from the record it was given.                                       *)
EntryStored(r, f) ==
    \E t \in 0..MaxClock :
      FoodEntry(req[r].nutrition_info, t) \in Range(load_scanned_foods(f, TRUE).foods)

C5_AckImpliesPersisted ==
    [][\A r \in Reqs : (InSave(r) /\ req'[r].pc = "done") => EntryStored(r, file')]_vars

(* C5 amended: when save_scanned_food returns without having raised, and    *)
(* nobody else wrote to the file since this call opened it, a read observes *)
(* the entry as the last one; when the call raised (file unreadable,        *)
(* unparseable, without 'foods', or not writable) it returns all the same   *)
(* and leaves the file as it was.                                           *)
C5_AckAfterOwnRewrite ==
    [][\A r \in Reqs :
         (InSave(r) /\ req'[r].pc = "done") =>
           IF req'[r].log = "Saved food"
           THEN file.bytes = <<>> =>
                  /\ EntryStored(r, file')
                  /\ Last(load_scanned_foods(file', TRUE).foods) = req[r].food_entry
           ELSE req'[r].log = "Error saving food data" /\ file' = file]_vars

C5_Witness ==
    \E r \in Reqs :
      /\ req[r].pc = "done" /\ Saved(r)
      /\ StoredFoods # <<>>
      /\ Last(StoredFoods) = Last(appendLog)
      /\ EntryStored(r, file)

(* C6 as stated: a POST ends as error with a message on a malformed body,   *)
(* as no_barcode on a valid image without barcodes, and as success with the *)
(* first result's payload and type on a valid image with barcodes.          *)
Malformed(body) == ~body.json \/ ~body.image \/ ~body.comma \/ ~body.b64 \/ ~body.img

C6_StatusByPriority ==
    \A r \in Reqs :
      (req[r].pc = "done" /\ req[r].method = "POST") =>
        LET body == req[r].body
            response == req[r].response IN
        IF Malformed(body) THEN response.status = "error" /\ response.message # ""
        ELSE IF body.barcodes = <<>> THEN response.status = "no_barcode"
        ELSE /\ response.status = "success"
             /\ response.barcode = body.barcodes[1].data
             /\ response.barcode_type = body.barcodes[1].type

(* C7: a failed lookup ends the request in the same step with status        *)
(* success, the decoded barcode and the error record, and leaves the store  *)
(* and the log of appends as they were.                                     *)
C7_LookupFailureStillSuccess ==
    [][\A r \in Reqs :
         (req[r].pc = "lookup" /\ req'[r].pc # "lookup"
            /\ "error" \in DOMAIN req'[r].nutrition_info) =>
           /\ req'[r].pc = "done"
           /\ req'[r].response.status = "success"
           /\ req'[r].response.barcode = req[r].body.barcodes[1].data
           /\ "error" \in DOMAIN req'[r].response.nutrition
           /\ req'[r].log = ""
           /\ file' = file
           /\ appendLog' = appendLog]_vars

C7_Witness ==
    \E r \in Reqs :
      /\ req[r].pc = "done"
      /\ req[r].response.status = "success"
      /\ "error" \in DOMAIN req[r].response.nutrition
      /\ req[r].response.barcode = <<55>>

(* C8: a request whose append raised ends with status success and the whole *)
(* nutrition record of the lookup.                                          *)
C8_SaveFailureSwallowed ==
    \A r \in Reqs :
      (req[r].pc = "done" /\ SaveFailed(r)) =>
        /\ req[r].response =
             SuccessResponse(req[r].body.barcodes[1].data, req[r].body.barcodes[1].type,
                             req[r].nutrition_info)
        /\ "error" \notin DOMAIN req[r].response.nutrition
        /\ "calories" \in DOMAIN req[r].response.nutrition

C8_Witness ==
    \E r \in Reqs :
      /\ req[r].pc = "done" /\ SaveFailed(r)
      /\ file.bytes = <<TokObj>>
      /\ req[r].response.status = "success"

(* C9: load_scanned_foods raises nothing and returns a sequence of entries, *)
(* the empty one when the file is absent, unreadable or does not parse.     *)
EntryFields ==
    {"name", "brand", "calories", "protein", "carbs", "fat", "fiber", "sugar", "timestamp"}

C10_ClearThenEmpty ==
    [][(dpc = "clear_write" /\ dpc' = "cleared" /\ \A r \in Reqs : ~InSave(r)) =>
         /\ \A readable \in BOOLEAN : load_scanned_foods(file', readable).foods = <<>>
         /\ daily_intake' = Intake(ZeroTotals, <<>>)]_vars

C10_Witness ==
    /\ dpc = "cleared"
    /\ \A r \in Reqs : ~InSave(r)
    /\ appendLog # <<>>
    /\ StoredFoods = <<>>
    /\ daily_intake = Intake(ZeroTotals, <<>>)

(***************************************************************************)
(* The lookup's normalisation.                                             *)
(***************************************************************************)
(* The nutrients get_nutrition_info resolves through the fallback chain,    *)
(* and the upstream keys of each in the order per-serving, per-container,   *)
(* per-100g.                                                                *)
Resolved == {"calories", "protein", "fat", "carbs", "fiber", "sugar", "salt"}

UpstreamName ==
    [calories |-> "energy-kcal", protein |-> "proteins", fat |-> "fat",
     carbs |-> "carbohydrates", fiber |-> "fiber", sugar |-> "sugars", salt |-> "salt"]

Tier(nutriments, nutrient, i) ==
    LET base == UpstreamName[nutrient] IN
    Get(nutriments, CASE i = 1 -> base \o "_serving" [] i = 2 -> base [] OTHER -> base \o "_100g")

FirstNonNull(nutriments, nutrient) ==
    IF Tier(nutriments, nutrient, 1) # None THEN Tier(nutriments, nutrient, 1)
    ELSE IF Tier(nutriments, nutrient, 2) # None THEN Tier(nutriments, nutrient, 2)
    ELSE Tier(nutriments, nutrient, 3)

(* The lookup of r has returned / has returned a record. *)
LookedUp(r) == req[r].gets > 0
Found(r) == LookedUp(r) /\ "error" \notin DOMAIN req[r].nutrition_info

(* The nutrient map of the answer r's lookup received. *)
UpstreamNutriments(r) ==
    GetD(GetD(req[r].resp.body, "product", EmptyDict), "nutriments", EmptyDict)

(* C11: every nutrient of a returned record is the first non-null value of  *)
(* its three upstream tiers in the order per-serving, per-container,        *)
(* per-100g; a per-serving value that is present wins even when it is 0.    *)
C11_FirstNonNullWins ==
    \A r \in Reqs : Found(r) =>
        \A nutrient \in Resolved :
            req[r].nutrition_info[nutrient] = FirstNonNull(UpstreamNutriments(r), nutrient)

(* C12: a nutrient of a returned record is absent exactly when it is absent *)
(* at all three upstream tiers.                                             *)
C12_AbsentIffAbsentUpstream ==
    \A r \in Reqs : Found(r) =>
        \A nutrient \in Resolved :
            (req[r].nutrition_info[nutrient] = None)
                <=> (\A i \in 1..3 : Tier(UpstreamNutriments(r), nutrient, i) = None)

(* C13: get_nutrition_info always returns a value, after exactly one GET:   *)
(* the request-failed error with the exception's message when the GET or    *)
(* the parse of a 200 answer raised, the fetch-failed error for a status    *)
(* other than 200, the not-found error for a 200 answer whose found flag is *)
(* not set, and a record without 'error' only for a 200 answer with the     *)
(* flag set.                                                                *)
C13_LookupAlwaysClassified ==
    \A r \in Reqs : LookedUp(r) =>
        LET resp == req[r].resp
            info == req[r].nutrition_info
            ok == ~resp.raises /\ resp.status_code = 200 /\ resp.parses IN
        /\ req[r].gets = 1
        /\ info # EmptyDict
        /\ (resp.raises \/ (resp.status_code = 200 /\ ~resp.parses))
               => info = [error |-> <<"API request failed: ", resp.msg>>]
        /\ (~resp.raises /\ resp.status_code # 200)
               => info = [error |-> <<"Failed to fetch product data", "">>]
        /\ (ok /\ Get(resp.body, "status") # Some(1))
               => info = [error |-> <<"Product not found in database", "">>]
        /\ ("error" \notin DOMAIN info) <=> (ok /\ Get(resp.body, "status") = Some(1))

(* Every kind of answer has been classified: a transport exception, an      *)
(* unparseable 200 answer, a 500 answer, a 200 answer without the flag and  *)
(* a found product, in finished requests.                                   *)
C13_Witness ==
    /\ \E r \in Reqs : /\ req[r].pc = "done"
                        /\ req[r].resp = HttpGarbled(200)
                        /\ req[r].nutrition_info = [error |-> <<"API request failed: ", "Expecting value">>]
                        /\ req[r].response.status = "success"
    /\ \E r \in Reqs : /\ req[r].pc = "done"
                        /\ req[r].resp = HttpAnswer(500, EmptyDict)
                        /\ req[r].nutrition_info = [error |-> <<"Failed to fetch product data", "">>]

(***************************************************************************)
(* Stored entries and their totals.                                        *)
(***************************************************************************)
(* C14: every entry in the store has a number, never null, for each of     *)
(* calories, protein, carbs, fat, fiber and sugar.                          *)
C14_StoredNutrientsNumeric ==
    \A i \in 1..Len(StoredFoods) :
        \A nutrient \in Range(Nutrients) :
            nutrient \in DOMAIN StoredFoods[i] /\ StoredFoods[i][nutrient] # None

(* The sum of one field over the entries, a missing or null field counted   *)
(* as 0.                                                                    *)
RECURSIVE SumField(_, _)
SumField(foods, nutrient) ==
    IF foods = <<>> THEN 0
    ELSE LET v == Get(Head(foods), nutrient) IN
         (IF v = None THEN 0 ELSE v[1]) + SumField(Tail(foods), nutrient)

(* C15: calculate_daily_totals of the stored entries does not fail and      *)
(* gives, for each nutrient, the sum of that field over all entries with a  *)
(* missing or null field counted as 0.                                      *)
C15_TotalsAreSums ==
    LET daily_totals == calculate_daily_totals(StoredFoods) IN
    /\ daily_totals.ok
    /\ \A nutrient \in Range(Nutrients) :
           daily_totals.totals[nutrient] = SumField(StoredFoods, nutrient)

(* C16: the timestamps of the stored entries are non-decreasing in sequence *)
(* order, however the handlers interleave.                                  *)
C16_TimestampsSorted ==
    \A i, j \in 1..Len(StoredFoods) :
        i < j => StoredFoods[i].timestamp <= StoredFoods[j].timestamp

(* Two stored entries written at different readings of the clock. *)
C16_Witness ==
    /\ Len(StoredFoods) = 2
    /\ StoredFoods[1].timestamp < StoredFoods[2].timestamp
    /\ Len(appendLog) = 2

(***************************************************************************)
(* Stored entries are never edited.                                        *)
(***************************************************************************)
IsPrefix(s, t) == Len(s) <= Len(t) /\ \A i \in 1..Len(s) : t[i] = s[i]

(* What a read of the store returns after the step. *)
StoredFoodsNext == load_scanned_foods(file', TRUE).foods

(* The step is r's successful load / r's truncating open / r's rewrite. *)
LoadStep(r) == req[r].pc = "save" /\ req'[r].pc = "entry"
TruncateStep(r) == req[r].pc = "open" /\ req'[r].pc = "write"
RewriteStep(r) == req[r].pc = "write" /\ req'[r].pc = "done"

(* The step is one of clear_scanned_foods. *)
ClearStep == dpc \in {"clear_open", "clear_write"} /\ dpc' # dpc

StatedBmr(p) ==
    IF Lower(p.gender) = "male"
    THEN 10 * p.weight + (625 * p.height) \div 100 - 5000 * p.age + 5000
    ELSE 10 * p.weight + (625 * p.height) \div 100 - 5000 * p.age - 161000

StatedMultiplier(activity_level) ==
    CASE activity_level = "Sedentary (little or no exercise)" -> 1200
      [] activity_level = "Lightly active (light exercise/sports 1-3 days/week)" -> 1375
      [] activity_level = "Moderately active (moderate exercise/sports 3-5 days/week)" -> 1550
      [] activity_level = "Very active (hard exercise/sports 6-7 days a week)" -> 1725
      [] activity_level = "Extra active (very hard exercise/sports & physical job)" -> 1900

StatedTdee(p) == TimesMilli(StatedBmr(p), StatedMultiplier(p.activity_level))

StatedTarget(tdee, goal) ==
    CASE goal = "Lose weight" -> tdee - 500000
      [] goal = "Gain weight (muscle)" -> tdee + 300000
      [] goal = "Maintain weight" -> tdee

(* The formulas hold in the stored profile and where                        *)
(* get_ai_nutrition_advice computes BMR and TDEE again.                     *)
FormulasHold ==
    /\ user_profile # None =>
          /\ user_profile[1].bmr = StatedBmr(user_profile[1])
          /\ user_profile[1].tdee = StatedTdee(user_profile[1])
    /\ (advice # None /\ advice[1].bmr # None) =>
          /\ advice[1].bmr = Some(StatedBmr(advice[1].profile))
          /\ advice[1].tdee = Some(StatedTdee(advice[1].profile))

(* The profile of the example: a 25-year-old male of 70 kg and 175 cm,      *)
(* sedentary.                                                               *)
IsExample(p) ==
    /\ p.age = 25 /\ Lower(p.gender) = "male"
    /\ p.weight = 70000 /\ p.height = 175000
    /\ p.activity_level = "Sedentary (little or no exercise)"

(* C18 as stated: the BMR is 10*weight + 6.25*height - 5*age + 5 for a      *)
(* gender that is male in any case and ... - 161 for every other gender,    *)
(* the TDEE is the BMR times the multiplier of the activity level, and the  *)
(* example has BMR 1773.75 and TDEE 2128.5.                                 *)
C18_BmrTdeeAsStated ==
    /\ FormulasHold
    /\ (advice # None /\ advice[1].bmr # None /\ IsExample(advice[1].profile)) =>
          advice[1].bmr = Some(1773750) /\ advice[1].tdee = Some(2128500)

(* C18: the two formulas as stated; the example has BMR 1673.75 and TDEE    *)
(* 2008.5.                                                                  *)
C18_BmrTdeeFormulas ==
    /\ FormulasHold
    /\ (advice # None /\ advice[1].bmr # None /\ IsExample(advice[1].profile)) =>
          advice[1].bmr = Some(1673750) /\ advice[1].tdee = Some(2008500)

(* calculate_bmr and calculate_tdee have been applied to the example,       *)
(* written "Male", and to the same person written "MALE".                   *)
C18_Witness ==
    /\ advice # None /\ advice[1].bmr # None
    /\ IsExample(advice[1].profile)
    /\ advice[1].profile.gender \in {"Male", "MALE"}
    /\ user_profile = Some(advice[1].profile)
    /\ user_profile[1].bmr = 1673750 /\ user_profile[1].tdee = 2008500

(* C19: the calorie target is TDEE - 500 for lose, TDEE + 300 for gain and  *)
(* TDEE for maintain, in the stored profile and in get_ai_nutrition_advice, *)
(* and the two agree for the same profile.                                  *)
C19_SameCalorieTarget ==
    /\ user_profile # None =>
          user_profile[1].daily_goals.calories
              = int(StatedTarget(user_profile[1].tdee, user_profile[1].goal))
    /\ (advice # None /\ advice[1].daily_calories # None) =>
          /\ advice[1].daily_calories
                 = Some(StatedTarget(advice[1].tdee[1], advice[1].profile.goal))
          /\ int(advice[1].daily_calories[1]) = advice[1].profile.daily_goals.calories

(* The steps that change the profile: from none only by a submission with   *)
(* name, age, weight and height set, which stores BMR, TDEE and daily goals *)
(* computed from the submitted values and goes on to clear the store in the *)
(* same run; from a profile only to none, the file left as it is.           *)
ProfileSteps ==
    /\ (user_profile = None /\ user_profile' # None) =>
          LET p == user_profile'[1]
              daily_calories == FormCalories(p.tdee, p.goal)
              macros == calculate_macros(daily_calories, p.goal) IN
          /\ p.name # "" /\ p.age # 0 /\ p.weight # 0 /\ p.height # 0
          /\ p.bmr = calculate_bmr(p.weight, p.height, p.age, p.gender)
          /\ p.tdee = calculate_tdee(p.bmr, p.activity_level)
          /\ p.daily_goals = [calories |-> int(daily_calories), protein |-> macros.protein,
                              carbs |-> macros.carbs, fat |-> macros.fat,
                              fiber |-> macros.fiber]
          /\ dpc = "ready" /\ dpc' = "clear_open"
          /\ file' = file
    /\ (user_profile # None /\ user_profile' # user_profile) =>
          /\ user_profile' = None
          /\ file' = file
          /\ dpc = "ready" /\ dpc' = "rerun"

(* The step ends the clear_scanned_foods call of a profile creation. *)
ClearEnds == dpc \in {"clear_open", "clear_write"} /\ dpc' \in {"cleared", "clear_failed"}

(* C20 as stated: the profile changes as above, and the creation of a       *)
(* profile leaves the store empty.                                          *)
C20_ProfileLifecycle ==
    [][ProfileSteps /\ (ClearEnds => StoredFoodsNext = <<>>)]_vars

(* C20: the profile changes as above; the creation of a profile leaves the  *)
(* store empty when its clear wrote the file, and leaves the file as it was *)
(* when the file could not be opened for writing.                           *)
C20_LifecycleUnlessClearFails ==
    [][/\ ProfileSteps
       /\ (ClearEnds /\ dpc' = "cleared") => StoredFoodsNext = <<>>
       /\ (ClearEnds /\ dpc' = "clear_failed") => file' = file]_vars

(* A profile has been created and its clear has emptied a store to which    *)
(* the backend had appended.                                                *)
C20_Witness ==
    /\ user_profile # None
    /\ dpc = "cleared"
    /\ appendLog # <<>>
    /\ \A r \in Reqs : Free(r)
    /\ StoredFoods = <<>>
    /\ file.bytes = JsonDump(EmptyStore)

(***************************************************************************)
(* Clear against an append in flight.                                      *)
(***************************************************************************)
(* A call of clear_scanned_foods has written the file and returned. *)
ClearCompleted == cleared /\ dpc # "clear_write"

(* C21: once a clear has completed, the store holds no entry that was in    *)
(* it before the clear: every entry it holds is one whose append completed, *)
(* none is an entry the store started with.                                 *)
C21_ClearedStayGone ==
    ClearCompleted =>
        \A i \in 1..Len(StoredFoods) : StoredFoods[i] \in Range(appendLog)

(***************************************************************************)
(* The AI advice.                                                          *)
(***************************************************************************)
(* C22: with AI enabled, when the model answers with a non-empty text the   *)
(* function returns exactly that text, and it returns the error text only   *)
(* when the call of the model raised.                                       *)
C22_AdviceIsModelText ==
    advice # None =>
        /\ (~advice[1].generation.raises /\ advice[1].generation.text # "")
               => advice[1].text = advice[1].generation.text
        /\ advice[1].text = "Error generating AI advice"
               => (advice[1].called /\ advice[1].generation.raises)

(***************************************************************************)
(* The stored goals.                                                       *)
(***************************************************************************)
(* C23: every daily goal of a stored profile is strictly positive.  (They   *)
(* are whole numbers, each being the result of int.)                        *)
C23_GoalsPositive ==
    user_profile # None =>
        \A goal \in {"calories", "protein", "carbs", "fat", "fiber"} :
            user_profile[1].daily_goals[goal] > 0
====
